---- MODULE Spec2Model ----
(***************************************************************************)
(* Model of config/firebase_config.py: FirebaseConfig.from_env and the     *)
(* FirebaseManager singleton (__new__, __init__, _initialize_firebase,     *)
(* the firestore property, health_check and cleanup).                      *)
(*                                                                         *)
(* The Firebase SDK (firebase_admin, google.cloud.firestore) is an         *)
(* external collaborator: every call into it has a nondeterministic        *)
(* outcome chosen by the action that models the caller.                    *)
(***************************************************************************)
EXTENDS Integers, Sequences, FiniteSets, TLC

\* ------------------------------------------------------------------ bounds

\* Client handles the SDK may construct in one behaviour.
MaxHandles == 2
\* Largest number of collections a listing returns.
MaxCollections == 3
\* The operation counter nops saturates here.
MaxOps == 3

\* ------------------------------------------------------------ Python values

None == "None"
NoExc == "NoExc"
NoHandle == 0
NoInstance == 0

\* Environment values of the three variables (None: the variable is unset).
ProjectIds == {None, "", "proj-1"}
CredentialPaths == {None, "", "cert.json", "missing.json"}
DatabaseUrls == {None, "", "https://db"}

Envs ==
    [project_id : ProjectIds, credentials_path : CredentialPaths,
     database_url : DatabaseUrls]

\* The environments the process runs in: the identifier unset, empty or set,
\* with the optional variables both unset or both set.
ProcessEnvs ==
    {e \in Envs :
        \/ e.credentials_path = None /\ e.database_url = None
        \/ e.credentials_path = "cert.json" /\ e.database_url = "https://db"}

\* os.path.exists: the one credential file that is on disk.
PathExists(p) == p = "cert.json"

\* Python truthiness of an Optional[str].
Truthy(s) == s # None /\ s # ""

\* The names bound in the module's global namespace: the imports, logger and
\* the two classes. (credentials and firestore are imported inside
\* _initialize_firebase and are local to it.)
ModuleGlobals ==
    {"os", "logging", "Optional", "Dict", "Any", "dataclass",
     "DefaultCredentialsError", "FirestoreClient", "BaseClient", "logger",
     "FirebaseConfig", "FirebaseManager"}

\* Evaluating a bare name inside a method: a global lookup.
NameBound(name) == name \in ModuleGlobals

\* ---------------------------------------------------------------- messages

MsgNotSet == "FIREBASE_PROJECT_ID environment variable not set"
MsgFailedInit == "Failed to initialize Firebase: "
MsgUnavailable == "Firestore client unavailable after reinitialization"
MsgNameError == "name 'firestore' is not defined"

\* --------------------------------------------------------- FirebaseConfig

\* The value of an instance whose config attribute was never assigned.
NoConfig == [project_id |-> None, credentials_path |-> None, database_url |-> None]

\* Variant: only an unset identifier is rejected (`is None`).
from_env_none_only(e) ==
    IF e.project_id = None
    THEN [exc |-> "ValueError", msg |-> MsgNotSet, config |-> NoConfig]
    ELSE [exc |-> NoExc, msg |-> "",
          config |-> [project_id |-> e.project_id,
                      credentials_path |-> e.credentials_path,
                      database_url |-> e.database_url]]

\* Variant: optional values read as `os.getenv(...) or None`.
from_env_empty_to_none(e) ==
    IF ~Truthy(e.project_id)
    THEN [exc |-> "ValueError", msg |-> MsgNotSet, config |-> NoConfig]
    ELSE [exc |-> NoExc, msg |-> "",
          config |-> [project_id |-> e.project_id,
                      credentials_path |-> IF Truthy(e.credentials_path)
                                           THEN e.credentials_path ELSE None,
                      database_url |-> IF Truthy(e.database_url)
                                       THEN e.database_url ELSE None]]

\* FirebaseConfig.from_env: `if not project_id: raise ValueError`, logged and
\* re-raised; otherwise the three values as os.getenv returns them.
from_env(e) ==
    IF ~Truthy(e.project_id)
    THEN [exc |-> "ValueError", msg |-> MsgNotSet, config |-> NoConfig]
    ELSE [exc |-> NoExc, msg |-> "",
          config |-> [project_id |-> e.project_id,
                      credentials_path |-> e.credentials_path,
                      database_url |-> e.database_url]]

\* ------------------------------------------------------------ SDK outcomes

\* What the SDK does during one _initialize_firebase: the outcome of building
\* the credential, of initialize_app, and of firestore.client() ("client": a
\* new client, "none": no client returned, otherwise the exception raised).
\* A stage after the first one that raises is never reached, so its outcome is
\* fixed.
SdkOutcomes ==
    {s \in [cred : {NoExc, "FileNotFoundError", "DefaultCredentialsError",
                    "RuntimeError"},
            app : {NoExc, "RuntimeError"},
            client : {"client", "none", "DefaultCredentialsError", "RuntimeError"}] :
        /\ s.cred # NoExc => s.app = NoExc
        /\ (s.cred # NoExc \/ s.app # NoExc) => s.client = "client"}

\* firebase_admin._apps is empty.
NoApp == [cred |-> None, projectId |-> None, databaseURL |-> None]

\* Class attribute defaults of a fresh FirebaseManager object.
NewObj == [initialized |-> FALSE, client |-> NoHandle, config |-> NoConfig]

\* --------------------------------------------------------- FirebaseManager

\* Variant: the certificate is used whenever a path is configured, without
\* the os.path.exists test.
CredentialKind_no_exists(cfg) ==
    IF Truthy(cfg.credentials_path) THEN "Certificate" ELSE "ApplicationDefault"

\* The credential _initialize_firebase builds for registration: a certificate
\* when a credentials path is configured and exists on disk, otherwise the
\* default application credentials.
CredentialKind(cfg) ==
    IF Truthy(cfg.credentials_path) /\ PathExists(cfg.credentials_path)
    THEN "Certificate"
    ELSE "ApplicationDefault"

\* app_options: projectId always, databaseURL when configured.
AppOptions(cfg) ==
    [cred |-> CredentialKind(cfg),
     projectId |-> cfg.project_id,
     databaseURL |-> IF Truthy(cfg.database_url) THEN cfg.database_url ELSE None]

\* The exceptions of the first except clause of _initialize_firebase.
CredentialErrors == {"DefaultCredentialsError", "FileNotFoundError"}

\* Variant: no except clause for credential errors, everything is re-raised.
TranslateInitError_reraise(raw) == [exc |-> raw, msg |-> raw]

\* Variant: a single `except Exception` that wraps every error.
TranslateInitError_wrap_all(raw) ==
    [exc |-> "ConnectionError", msg |-> MsgFailedInit \o raw]

\* The except clauses of _initialize_firebase: credential errors become a
\* ConnectionError, anything else is re-raised unchanged.
TranslateInitError(raw) ==
    IF raw \in CredentialErrors
    THEN [exc |-> "ConnectionError", msg |-> MsgFailedInit \o raw]
    ELSE [exc |-> raw, msg |-> raw]

\* Variant: registration without the test of firebase_admin._apps.
NeedsRegistration_always(registered) == TRUE

\* `if not firebase_admin._apps`: no app is registered yet.
NeedsRegistration(registered) == registered = NoApp

\* Variant: the client is constructed and cached first, registration follows.
initialize_firebase_client_first(o, registered, fresh, sdk) ==
    LET needReg == NeedsRegistration(registered)
        credExc == IF needReg THEN sdk.cred ELSE NoExc
        appExc == IF needReg /\ credExc = NoExc THEN sdk.app ELSE NoExc
        didReg == needReg /\ credExc = NoExc /\ appExc = NoExc
        clientExc == IF sdk.client \notin {"client", "none"}
                     THEN sdk.client ELSE NoExc
        raw == IF clientExc # NoExc THEN clientExc
               ELSE IF credExc # NoExc THEN credExc
               ELSE appExc
        made == IF sdk.client = "client" THEN fresh ELSE NoHandle
    IN  [exc |-> IF raw = NoExc THEN NoExc ELSE TranslateInitError(raw).exc,
         msg |-> IF raw = NoExc THEN "" ELSE TranslateInitError(raw).msg,
         obj |-> IF clientExc = NoExc THEN [o EXCEPT !.client = made] ELSE o,
         registered |-> IF didReg /\ clientExc = NoExc
                        THEN AppOptions(o.config) ELSE registered,
         made |-> made,
         regs |-> IF didReg /\ clientExc = NoExc THEN 1 ELSE 0,
         calls |-> IF clientExc = NoExc THEN 1 ELSE 0,
         raw |-> raw]

\* FirebaseManager._initialize_firebase on object o. registered is
\* firebase_admin._apps, fresh the identity of the next client the SDK would
\* construct, sdk the SDK's outcomes during this call.
\* Result: exc/msg (NoExc: returned normally), raw (the exception the SDK
\* raised), the object and the app registry afterwards, made (the client
\* constructed, NoHandle if none), regs and calls (the number of initialize_app
\* and firestore.client() calls that returned).
initialize_firebase(o, registered, fresh, sdk) ==
    LET needReg == NeedsRegistration(registered)
        credExc == IF needReg THEN sdk.cred ELSE NoExc
        appExc == IF needReg /\ credExc = NoExc THEN sdk.app ELSE NoExc
        didReg == needReg /\ credExc = NoExc /\ appExc = NoExc
        reg2 == IF didReg THEN AppOptions(o.config) ELSE registered
        reached == credExc = NoExc /\ appExc = NoExc
        clientExc == IF reached /\ sdk.client \notin {"client", "none"}
                     THEN sdk.client ELSE NoExc
        raw == IF credExc # NoExc THEN credExc
               ELSE IF appExc # NoExc THEN appExc
               ELSE clientExc
        made == IF reached /\ sdk.client = "client" THEN fresh ELSE NoHandle
        returned == reached /\ clientExc = NoExc
    IN  [exc |-> IF raw = NoExc THEN NoExc ELSE TranslateInitError(raw).exc,
         msg |-> IF raw = NoExc THEN "" ELSE TranslateInitError(raw).msg,
         obj |-> IF returned THEN [o EXCEPT !.client = made] ELSE o,
         registered |-> reg2,
         made |-> made,
         regs |-> IF didReg THEN 1 ELSE 0,
         calls |-> IF returned THEN 1 ELSE 0,
         raw |-> raw]

\* Variant: __new__ without the `_instance is None` test.
FirebaseManager_new_always(instance, nobjs) ==
    [instance |-> nobjs + 1, allocated |-> TRUE]

\* FirebaseManager.__new__: allocate an object only when _instance is None.
\* instance is cls._instance, nobjs the number of objects allocated so far.
FirebaseManager_new(instance, nobjs) ==
    IF instance = NoInstance
    THEN [instance |-> nobjs + 1, allocated |-> TRUE]
    ELSE [instance |-> instance, allocated |-> FALSE]

\* Variant: __init__ that sets _initialized before loading and initializing.
FirebaseManager_init_flag_first(o, e, registered, fresh, sdk) ==
    IF ~o.initialized
    THEN LET c == from_env(e)
             o0 == [o EXCEPT !.initialized = TRUE]
             o1 == [o0 EXCEPT !.config = c.config]
             r == initialize_firebase(o1, registered, fresh, sdk)
         IN  IF c.exc # NoExc
             THEN [exc |-> c.exc, msg |-> c.msg, obj |-> o0,
                   registered |-> registered, made |-> NoHandle,
                   regs |-> 0, calls |-> 0, inits |-> 0, loads |-> 1,
                   raw |-> NoExc]
             ELSE [exc |-> r.exc, msg |-> r.msg, obj |-> r.obj,
                   registered |-> r.registered, made |-> r.made,
                   regs |-> r.regs, calls |-> r.calls, inits |-> 1, loads |-> 1,
                   raw |-> r.raw]
    ELSE [exc |-> NoExc, msg |-> "", obj |-> o, registered |-> registered,
          made |-> NoHandle, regs |-> 0, calls |-> 0, inits |-> 0, loads |-> 0,
          raw |-> NoExc]

\* FirebaseManager.__init__ on object o under environment e.
FirebaseManager_init(o, e, registered, fresh, sdk) ==
    IF ~o.initialized
    THEN LET c == from_env(e)
             o1 == [o EXCEPT !.config = c.config]
             r == initialize_firebase(o1, registered, fresh, sdk)
         IN  IF c.exc # NoExc
             THEN [exc |-> c.exc, msg |-> c.msg, obj |-> o,
                   registered |-> registered, made |-> NoHandle,
                   regs |-> 0, calls |-> 0, inits |-> 0, loads |-> 1,
                   raw |-> NoExc]
             ELSE IF r.exc # NoExc
             THEN [exc |-> r.exc, msg |-> r.msg, obj |-> r.obj,
                   registered |-> r.registered, made |-> r.made,
                   regs |-> r.regs, calls |-> r.calls, inits |-> 1, loads |-> 1,
                   raw |-> r.raw]
             ELSE [exc |-> NoExc, msg |-> "",
                   obj |-> [r.obj EXCEPT !.initialized = TRUE],
                   registered |-> r.registered, made |-> r.made,
                   regs |-> r.regs, calls |-> r.calls, inits |-> 1, loads |-> 1,
                   raw |-> NoExc]
    ELSE [exc |-> NoExc, msg |-> "", obj |-> o, registered |-> registered,
          made |-> NoHandle, regs |-> 0, calls |-> 0, inits |-> 0, loads |-> 0,
          raw |-> NoExc]

\* Variant: the property retries a failed reinitialization once more.
firestore_retry(o, registered, fresh, sdk) ==
    IF o.client = NoHandle
    THEN LET r1 == initialize_firebase(o, registered, fresh, sdk)
             again == r1.exc # NoExc \/ r1.obj.client = NoHandle
             r == IF again
                  THEN initialize_firebase(r1.obj, r1.registered, fresh, sdk)
                  ELSE r1
             n == IF again THEN 2 ELSE 1
         IN  [exc |-> IF r.exc # NoExc THEN r.exc
                      ELSE IF r.obj.client = NoHandle THEN "ConnectionError"
                      ELSE NoExc,
              msg |-> IF r.exc # NoExc THEN r.msg
                      ELSE IF r.obj.client = NoHandle THEN MsgUnavailable
                      ELSE "",
              value |-> IF r.exc # NoExc THEN NoHandle ELSE r.obj.client,
              obj |-> r.obj, registered |-> r.registered, made |-> r.made,
              regs |-> r1.regs + (IF again THEN r.regs ELSE 0),
              calls |-> r1.calls + (IF again THEN r.calls ELSE 0),
              inits |-> n, raw |-> r.raw]
    ELSE [exc |-> NoExc, msg |-> "", value |-> o.client,
          obj |-> o, registered |-> registered, made |-> NoHandle,
          regs |-> 0, calls |-> 0, inits |-> 0, raw |-> NoExc]

\* The firestore property on object o: one reinitialization when the cached
\* client is None, then the None check, then the cached client.
firestore(o, registered, fresh, sdk) ==
    IF o.client = NoHandle
    THEN LET r == initialize_firebase(o, registered, fresh, sdk)
         IN  IF r.exc # NoExc
             THEN [exc |-> r.exc, msg |-> r.msg, value |-> NoHandle,
                   obj |-> r.obj, registered |-> r.registered, made |-> r.made,
                   regs |-> r.regs, calls |-> r.calls, inits |-> 1,
                   raw |-> r.raw]
             ELSE IF r.obj.client = NoHandle
             THEN [exc |-> "ConnectionError", msg |-> MsgUnavailable,
                   value |-> NoHandle,
                   obj |-> r.obj, registered |-> r.registered, made |-> r.made,
                   regs |-> r.regs, calls |-> r.calls, inits |-> 1,
                   raw |-> r.raw]
             ELSE [exc |-> NoExc, msg |-> "", value |-> r.obj.client,
                   obj |-> r.obj, registered |-> r.registered, made |-> r.made,
                   regs |-> r.regs, calls |-> r.calls, inits |-> 1,
                   raw |-> r.raw]
    ELSE [exc |-> NoExc, msg |-> "", value |-> o.client,
          obj |-> o, registered |-> registered, made |-> NoHandle,
          regs |-> 0, calls |-> 0, inits |-> 0, raw |-> NoExc]

\* A listing outcome: the number of collections, or ListingFails when
\* collections() raises.
ListingFails == -1
Listings == {ListingFails} \cup (0..MaxCollections)

\* FirebaseManager.health_check on object o. The try body reads self.firestore,
\* lists the collections and builds the healthy dict; the handler builds the
\* unhealthy one. Both dicts evaluate the bare name firestore
\* (firestore.SERVER_TIMESTAMP), which raises NameError when it is not bound.
health_check(o, registered, fresh, sdk, listing) ==
    LET f == firestore(o, registered, fresh, sdk)
        tried ==
            IF f.exc # NoExc THEN [exc |-> f.exc, msg |-> f.msg]
            ELSE IF listing = ListingFails
            THEN [exc |-> "ServiceUnavailable", msg |-> "ServiceUnavailable"]
            ELSE IF ~NameBound("firestore")
            THEN [exc |-> "NameError", msg |-> MsgNameError]
            ELSE [exc |-> NoExc, msg |-> ""]
        base == [exc |-> NoExc, msg |-> "", status |-> None, project_id |-> None,
                 collections_count |-> -1, error |-> None,
                 obj |-> f.obj, registered |-> f.registered, made |-> f.made,
                 regs |-> f.regs, calls |-> f.calls, inits |-> f.inits,
                 raw |-> f.raw]
    IN  IF tried.exc = NoExc
        THEN [base EXCEPT !.status = "healthy",
                          !.project_id = o.config.project_id,
                          !.collections_count = listing]
        ELSE IF ~NameBound("firestore")
        THEN [base EXCEPT !.exc = "NameError", !.msg = MsgNameError]
        ELSE [base EXCEPT !.status = "unhealthy", !.error = tried.msg]

\* What close() does: the exception it raises (NoExc: none) and whether the
\* client was released; a close that returns has released it.
CloseOutcomes ==
    {c \in [exc : {NoExc, "RuntimeError"}, released : BOOLEAN] :
        c.exc = NoExc => c.released}

\* Variant: cleanup that drops the cached client without closing it.
cleanup_no_close(o, close) ==
    [exc |-> NoExc, obj |-> [o EXCEPT !.client = NoHandle], closes |-> 0,
     closed |-> NoHandle, swallowed |-> NoExc]

\* Variant: cleanup that calls close() without testing the cached client.
cleanup_unguarded(o, close) ==
    IF close.exc = NoExc
    THEN [exc |-> NoExc, obj |-> [o EXCEPT !.client = NoHandle],
          closes |-> 1, closed |-> o.client, swallowed |-> NoExc]
    ELSE [exc |-> NoExc, obj |-> o, closes |-> 1,
          closed |-> IF close.released THEN o.client ELSE NoHandle,
          swallowed |-> close.exc]

\* Variant: cleanup without the try/except around close().
cleanup_propagates(o, close) ==
    IF o.client # NoHandle
    THEN [exc |-> close.exc,
          obj |-> IF close.exc = NoExc THEN [o EXCEPT !.client = NoHandle] ELSE o,
          closes |-> 1,
          closed |-> IF close.released THEN o.client ELSE NoHandle,
          swallowed |-> NoExc]
    ELSE [exc |-> NoExc, obj |-> o, closes |-> 0, closed |-> NoHandle,
          swallowed |-> NoExc]

\* FirebaseManager.cleanup on object o: close and clear the cached client when
\* there is one; an exception from close() skips the clearing and is logged.
\* closed is the client close() released, swallowed the exception logged.
cleanup(o, close) ==
    IF o.client # NoHandle
    THEN IF close.exc = NoExc
         THEN [exc |-> NoExc, obj |-> [o EXCEPT !.client = NoHandle],
               closes |-> 1, closed |-> o.client, swallowed |-> NoExc]
         ELSE [exc |-> NoExc, obj |-> o, closes |-> 1,
               closed |-> IF close.released THEN o.client ELSE NoHandle,
               swallowed |-> close.exc]
    ELSE [exc |-> NoExc, obj |-> o, closes |-> 0, closed |-> NoHandle,
          swallowed |-> NoExc]

\* ------------------------------------------------------------------- state

VARIABLES
    env,          \* the process environment (os.environ)
    instance,     \* FirebaseManager._instance (NoInstance: None)
    objs,         \* the FirebaseManager objects allocated, by identity
    registered,   \* firebase_admin._apps (NoApp: empty)
    live,         \* the clients constructed and not yet released
    constructed,  \* the number of clients constructed so far
    held,         \* the objects a caller got from FirebaseManager()
    last,         \* the most recent call: its pre-state, effects and outcome
    after,        \* the kind of the most recent call (see After)
    nops,         \* the number of calls made, saturating at MaxOps
    registrations, \* the number of initialize_app calls that returned
    thr           \* the threads inside FirebaseManager() (concurrent callers)

vars ==
    <<env, instance, objs, registered, live, constructed, held, last, after,
      nops, registrations, thr>>

\* The threads that call FirebaseManager() concurrently.
Threads == {1, 2}

\* A thread before its call: pc is the statement it executes next, seen the
\* value of cls._instance its `is None` test read, mine the object it
\* allocated, self the object __new__ returned to it, cfgOk whether from_env
\* returned, needReg the result of its `not firebase_admin._apps` test, exc
\* the exception its call raised.
ThreadStart ==
    [pc |-> "idle", seen |-> NoInstance, mine |-> NoInstance,
     self |-> NoInstance, cfgOk |-> FALSE, needReg |-> FALSE, exc |-> NoExc]

\* The record of "no call yet".
NoOp ==
    [op |-> "none", outcome |-> "none", exc |-> NoExc, msg |-> "",
     inst |-> NoInstance, handle |-> NoHandle,
     status |-> None, project_id |-> None, collections_count |-> -1,
     error |-> None,
     loads |-> 0, inits |-> 0, regs |-> 0, calls |-> 0, closes |-> 0,
     swallowed |-> NoExc, close |-> NoExc, raw |-> NoExc,
     listing |-> ListingFails,
     pre |-> [instance |-> NoInstance, initialized |-> FALSE,
              client |-> NoHandle, config |-> NoConfig, registered |-> FALSE,
              after |-> "none", nops |-> 0]]

\* The kind of a call that ended with exc, for the call that follows it.
After(exc, op) ==
    IF op = "acquire"
    THEN (IF exc = NoExc THEN "acquire_return" ELSE "acquire_raise")
    ELSE IF op = "cleanup" THEN "cleanup"
    ELSE "other"

\* The snapshot a call on object i (NoInstance: none yet) starts from.
Pre(i) ==
    [instance |-> instance,
     initialized |-> IF i = NoInstance THEN FALSE ELSE objs[i].initialized,
     client |-> IF i = NoInstance THEN NoHandle ELSE objs[i].client,
     config |-> IF i = NoInstance THEN NoConfig ELSE objs[i].config,
     registered |-> registered # NoApp,
     after |-> after,
     nops |-> nops]

Outcome(exc) == IF exc = NoExc THEN "return" ELSE "raise"

Bump == IF nops < MaxOps THEN nops + 1 ELSE nops

Made(h) == IF h = NoHandle THEN {} ELSE {h}

Init ==
    /\ env \in ProcessEnvs
    /\ instance = NoInstance
    /\ objs = <<>>
    /\ registered = NoApp
    /\ live = {}
    /\ constructed = 0
    /\ held = {}
    /\ last = NoOp
    /\ after = "none"
    /\ nops = 0
    /\ registrations = 0
    /\ thr = [t \in Threads |-> ThreadStart]

\* The environment changes between calls.
SetEnv ==
    /\ \E e \in ProcessEnvs : e # env /\ env' = e
    /\ last' = [NoOp EXCEPT !.op = "setenv"]
    /\ UNCHANGED <<instance, objs, registered, live, constructed, held, after,
                   nops, registrations, thr>>

\* FirebaseManager(): __new__ then __init__ on the object it returns.
Acquire ==
    /\ constructed < MaxHandles
    /\ \E sdk \in SdkOutcomes :
      \E n \in {FirebaseManager_new(instance, Len(objs))} :
      \E objs1 \in {IF n.allocated THEN Append(objs, NewObj) ELSE objs} :
      \E r \in {FirebaseManager_init(objs1[n.instance], env, registered,
                                     constructed + 1, sdk)} :
            /\ instance' = n.instance
            /\ objs' = [objs1 EXCEPT ![n.instance] = r.obj]
            /\ registered' = r.registered
            /\ registrations' = registrations + r.regs
            /\ live' = live \cup Made(r.made)
            /\ constructed' = constructed + Cardinality(Made(r.made))
            /\ held' = IF r.exc = NoExc THEN held \cup {n.instance} ELSE held
            /\ last' = [NoOp EXCEPT !.op = "acquire", !.outcome = Outcome(r.exc),
                                    !.exc = r.exc, !.msg = r.msg,
                                    !.inst = IF r.exc = NoExc THEN n.instance
                                             ELSE NoInstance,
                                    !.loads = r.loads, !.inits = r.inits,
                                    !.regs = r.regs, !.calls = r.calls,
                                    !.raw = r.raw,
                                    !.pre = Pre(instance)]
            /\ after' = After(r.exc, "acquire")
    /\ nops' = Bump
    /\ UNCHANGED <<env, thr>>

\* manager.firestore, read by a caller that holds the manager.
Firestore ==
    /\ constructed < MaxHandles
    /\ \E i \in held, sdk \in SdkOutcomes :
      \E r \in {firestore(objs[i], registered, constructed + 1, sdk)} :
            /\ objs' = [objs EXCEPT ![i] = r.obj]
            /\ registered' = r.registered
            /\ registrations' = registrations + r.regs
            /\ live' = live \cup Made(r.made)
            /\ constructed' = constructed + Cardinality(Made(r.made))
            /\ last' = [NoOp EXCEPT !.op = "firestore", !.outcome = Outcome(r.exc),
                                    !.exc = r.exc, !.msg = r.msg,
                                    !.inst = i, !.handle = r.value,
                                    !.inits = r.inits,
                                    !.regs = r.regs, !.calls = r.calls,
                                    !.raw = r.raw,
                                    !.pre = Pre(i)]
    /\ after' = After(NoExc, "firestore")
    /\ nops' = Bump
    /\ UNCHANGED <<env, instance, held, thr>>

\* manager.health_check().
HealthCheck ==
    /\ constructed < MaxHandles
    /\ \E i \in held, sdk \in SdkOutcomes, listing \in Listings :
      \E r \in {health_check(objs[i], registered, constructed + 1, sdk,
                             listing)} :
            /\ objs' = [objs EXCEPT ![i] = r.obj]
            /\ registered' = r.registered
            /\ registrations' = registrations + r.regs
            /\ live' = live \cup Made(r.made)
            /\ constructed' = constructed + Cardinality(Made(r.made))
            /\ last' = [NoOp EXCEPT !.op = "health_check",
                                    !.outcome = Outcome(r.exc),
                                    !.exc = r.exc, !.msg = r.msg, !.inst = i,
                                    !.status = r.status,
                                    !.project_id = r.project_id,
                                    !.collections_count = r.collections_count,
                                    !.error = r.error,
                                    !.inits = r.inits,
                                    !.regs = r.regs, !.calls = r.calls,
                                    !.raw = r.raw,
                                    !.listing = IF r.obj.client = NoHandle
                                                THEN ListingFails ELSE listing,
                                    !.pre = Pre(i)]
    /\ after' = After(NoExc, "health_check")
    /\ nops' = Bump
    /\ UNCHANGED <<env, instance, held, thr>>

\* manager.cleanup().
Cleanup ==
    /\ \E i \in held, close \in CloseOutcomes :
      \E r \in {cleanup(objs[i], close)} :
            /\ objs' = [objs EXCEPT ![i] = r.obj]
            /\ live' = live \ Made(r.closed)
            /\ last' = [NoOp EXCEPT !.op = "cleanup", !.outcome = Outcome(r.exc),
                                    !.exc = r.exc, !.inst = i,
                                    !.closes = r.closes,
                                    !.swallowed = r.swallowed,
                                    !.close = IF r.closes = 0 THEN NoExc
                                              ELSE close.exc,
                                    !.pre = Pre(i)]
    /\ after' = After(NoExc, "cleanup")
    /\ nops' = Bump
    /\ UNCHANGED <<env, instance, registered, constructed, held, registrations,
                   thr>>

Next == SetEnv \/ Acquire \/ Firestore \/ HealthCheck \/ Cleanup

Spec == Init /\ [][Next]_vars

\* A process whose environment is any of Envs and does not change.
InitFixedEnv ==
    /\ env \in Envs
    /\ instance = NoInstance
    /\ objs = <<>>
    /\ registered = NoApp
    /\ live = {}
    /\ constructed = 0
    /\ held = {}
    /\ last = NoOp
    /\ after = "none"
    /\ nops = 0
    /\ registrations = 0
    /\ thr = [t \in Threads |-> ThreadStart]

NextFixedEnv == Acquire \/ Firestore \/ HealthCheck \/ Cleanup

SpecFixedEnv == InitFixedEnv /\ [][NextFixedEnv]_vars

\* ------------------------------------------- concurrent first FirebaseManager()

\* Two threads call FirebaseManager() once each, without locking; a thread
\* switch may happen between any two statements below.
InitConc ==
    /\ env \in ProcessEnvs
    /\ instance = NoInstance
    /\ objs = <<>>
    /\ registered = NoApp
    /\ live = {}
    /\ constructed = 0
    /\ held = {}
    /\ last = NoOp
    /\ after = "none"
    /\ nops = 0
    /\ registrations = 0
    /\ thr = [t \in Threads |-> ThreadStart]

\* __new__: `if cls._instance is None`.
NewTest(t) ==
    /\ thr[t].pc = "idle"
    /\ \E n \in {FirebaseManager_new(instance, Len(objs))} :
            thr' = [thr EXCEPT ![t].seen = instance,
                               ![t].pc = IF n.allocated THEN "new_store"
                                         ELSE "new_return"]
    /\ UNCHANGED <<env, instance, objs, registered, live, constructed, held,
                   last, after, nops, registrations>>

\* __new__: `cls._instance = super().__new__(cls)`.
NewStore(t) ==
    /\ thr[t].pc = "new_store"
    /\ objs' = Append(objs, NewObj)
    /\ instance' = Len(objs) + 1
    /\ thr' = [thr EXCEPT ![t].mine = Len(objs) + 1, ![t].pc = "new_return"]
    /\ UNCHANGED <<env, registered, live, constructed, held, last, after, nops,
                   registrations>>

\* __new__: `return cls._instance`, read again.
NewReturn(t) ==
    /\ thr[t].pc = "new_return"
    /\ thr' = [thr EXCEPT ![t].self = instance, ![t].pc = "init_test"]
    /\ UNCHANGED <<env, instance, objs, registered, live, constructed, held,
                   last, after, nops, registrations>>

\* __init__: `if not self._initialized`; the call returns when it is set.
InitTest(t) ==
    /\ thr[t].pc = "init_test"
    /\ IF objs[thr[t].self].initialized
       THEN /\ thr' = [thr EXCEPT ![t].pc = "done"]
            /\ held' = held \cup {thr[t].self}
       ELSE /\ thr' = [thr EXCEPT ![t].pc = "load"]
            /\ held' = held
    /\ UNCHANGED <<env, instance, objs, registered, live, constructed, last,
                   after, nops, registrations>>

\* __init__: `self.config = FirebaseConfig.from_env()`.
LoadConfig(t) ==
    /\ thr[t].pc = "load"
    /\ \E c \in {from_env(env)} :
            IF c.exc # NoExc
            THEN /\ thr' = [thr EXCEPT ![t].pc = "raised", ![t].exc = c.exc]
                 /\ objs' = objs
            ELSE /\ thr' = [thr EXCEPT ![t].pc = "apps_test", ![t].cfgOk = TRUE]
                 /\ objs' = [objs EXCEPT ![thr[t].self].config = c.config]
    /\ UNCHANGED <<env, instance, registered, live, constructed, held, last,
                   after, nops, registrations>>

\* _initialize_firebase: `if not firebase_admin._apps`.
AppsTest(t) ==
    /\ thr[t].pc = "apps_test"
    /\ \E b \in {NeedsRegistration(registered)} :
            thr' = [thr EXCEPT ![t].needReg = b,
                               ![t].pc = IF b THEN "register" ELSE "client"]
    /\ UNCHANGED <<env, instance, objs, registered, live, constructed, held,
                   last, after, nops, registrations>>

\* _initialize_firebase: the credential and firebase_admin.initialize_app.
Register(t) ==
    /\ thr[t].pc = "register"
    /\ \E sdk \in SdkOutcomes :
        \E raw \in {IF sdk.cred # NoExc THEN sdk.cred ELSE sdk.app} :
            IF raw # NoExc
            THEN /\ thr' = [thr EXCEPT ![t].pc = "raised",
                                       ![t].exc = TranslateInitError(raw).exc]
                 /\ UNCHANGED <<registered, registrations>>
            ELSE /\ thr' = [thr EXCEPT ![t].pc = "client"]
                 /\ registered' = AppOptions(objs[thr[t].self].config)
                 /\ registrations' = registrations + 1
    /\ UNCHANGED <<env, instance, objs, live, constructed, held, last, after,
                   nops>>

\* _initialize_firebase: `self._firestore_client = firestore.client()`.
Client(t) ==
    /\ thr[t].pc = "client"
    /\ constructed < MaxHandles
    /\ \E out \in {s.client : s \in SdkOutcomes} :
            IF out \notin {"client", "none"}
            THEN /\ thr' = [thr EXCEPT ![t].pc = "raised",
                                       ![t].exc = TranslateInitError(out).exc]
                 /\ UNCHANGED <<objs, live, constructed>>
            ELSE \E made \in {IF out = "client" THEN constructed + 1
                              ELSE NoHandle} :
                 /\ thr' = [thr EXCEPT ![t].pc = "set_flag"]
                 /\ objs' = [objs EXCEPT ![thr[t].self].client = made]
                 /\ live' = live \cup Made(made)
                 /\ constructed' = constructed + Cardinality(Made(made))
    /\ UNCHANGED <<env, instance, registered, held, last, after, nops,
                   registrations>>

\* __init__: `self._initialized = True`, then FirebaseManager() returns self.
SetFlag(t) ==
    /\ thr[t].pc = "set_flag"
    /\ objs' = [objs EXCEPT ![thr[t].self].initialized = TRUE]
    /\ thr' = [thr EXCEPT ![t].pc = "done"]
    /\ held' = held \cup {thr[t].self}
    /\ UNCHANGED <<env, instance, registered, live, constructed, last, after,
                   nops, registrations>>

NextConc ==
    \E t \in Threads :
        \/ NewTest(t)
        \/ NewStore(t)
        \/ NewReturn(t)
        \/ InitTest(t)
        \/ LoadConfig(t)
        \/ AppsTest(t)
        \/ Register(t)
        \/ Client(t)
        \/ SetFlag(t)

SpecConc == InitConc /\ [][NextConc]_vars

\* ------------------------------------------------------------------ claims

\* The manager object the last call was made on.
LastObj == objs[last.inst]

\* C1: health_check() never raises: every call returns a result whose status
\* is "healthy" or "unhealthy".
C1_HealthCheckNeverRaises ==
    last.op = "health_check" =>
        /\ last.outcome = "return"
        /\ last.status \in {"healthy", "unhealthy"}

\* C2: with the handle present and a listing of n collections, health_check()
\* returns status "healthy", the configured project identifier and
\* collections_count = n.
C2_HealthyWithCount ==
    (/\ last.op = "health_check"
     /\ last.pre.client # NoHandle
     /\ last.listing # ListingFails) =>
        /\ last.outcome = "return"
        /\ last.status = "healthy"
        /\ last.project_id = LastObj.config.project_id
        /\ last.collections_count = last.listing

\* C3: two sequential FirebaseManager() calls return the identical instance and
\* run the initialization side effects (configuration load, app registration,
\* client construction) exactly once: the first call of the process runs each
\* once, and a call on an initialized manager returns the same object and runs
\* none of them.
C3_SingletonAcquire ==
    /\ Len(objs) <= 1
    /\ (last.op = "acquire" /\ last.pre.nops = 0 /\ last.outcome = "return") =>
            /\ last.loads = 1 /\ last.inits = 1
            /\ last.regs = 1 /\ last.calls = 1
            /\ last.inst = instance
    /\ (last.op = "acquire" /\ last.pre.after = "acquire_return") =>
            last.pre.initialized
    /\ (last.op = "acquire" /\ last.pre.initialized) =>
            /\ last.outcome = "return"
            /\ last.inst = last.pre.instance
            /\ last.loads = 0 /\ last.inits = 0
            /\ last.regs = 0 /\ last.calls = 0

\* C3 witness: the second of the first two calls of the process, both
\* FirebaseManager() calls that returned.
C3_Witness ==
    /\ last.op = "acquire" /\ last.outcome = "return"
    /\ last.pre.nops = 1 /\ last.pre.after = "acquire_return"

\* C4 as stated: after a cleanup() that cleared the handle, the next read of
\* the firestore property makes exactly one reinitialization attempt and then
\* returns a handle or raises ConnectionError.
C4_AfterCleanupOneReinit ==
    (last.op = "firestore" /\ last.pre.after = "cleanup"
        /\ last.pre.client = NoHandle) =>
        /\ last.inits = 1
        /\ \/ last.outcome = "return" /\ last.handle # NoHandle
           \/ last.outcome = "raise" /\ last.exc = "ConnectionError"

\* C4 amended: a read of the firestore property makes exactly one
\* reinitialization attempt when the cached handle is absent and none when it
\* is cached; it then returns the cached handle or raises ConnectionError or
\* the unexpected error of the attempt. No other call reinitializes: cleanup()
\* never does, FirebaseManager() on an initialized manager never does, and
\* health_check() does so only through the property, at most once.
C4_OneReinitPerAccess ==
    /\ last.op \in {"firestore", "health_check"} =>
            last.inits = (IF last.pre.client = NoHandle THEN 1 ELSE 0)
    /\ last.op = "firestore" =>
            \/ /\ last.outcome = "return"
               /\ last.handle # NoHandle
               /\ last.handle = LastObj.client
            \/ /\ last.outcome = "raise"
               /\ last.pre.client = NoHandle
               /\ last.exc = "ConnectionError" \/ last.exc = last.raw
    /\ last.op = "cleanup" => last.inits = 0
    /\ (last.op = "acquire" /\ last.pre.initialized) => last.inits = 0

\* C4 witness: the property read right after a cleanup() that cleared the
\* handle.
C4_Witness ==
    /\ last.op = "firestore" /\ last.pre.after = "cleanup"
    /\ last.pre.client = NoHandle /\ last.inits = 1

\* C5 as stated: when the handle is absent and the reinitialization fails, in
\* whatever way, the property raises ConnectionError with the message
\* "unavailable after reinitialization".
C5_UnavailableAfterReinit ==
    (last.op = "firestore" /\ last.pre.client = NoHandle
        /\ last.outcome = "raise") =>
        last.exc = "ConnectionError" /\ last.msg = MsgUnavailable

\* C5 amended: when the handle is absent and the reinitialization fails, the
\* property raises: ConnectionError "unavailable after reinitialization" when
\* the attempt returned with the handle still absent, ConnectionError "Failed
\* to initialize Firebase: ..." when it hit a credential error, and the
\* unexpected error itself otherwise.
C5_AccessorFailure ==
    (last.op = "firestore" /\ last.pre.client = NoHandle) =>
        /\ last.outcome = "raise" <=>
                (last.raw # NoExc \/ LastObj.client = NoHandle)
        /\ last.outcome = "raise" =>
            /\ LastObj.client = NoHandle
            /\ last.raw = NoExc =>
                    last.exc = "ConnectionError" /\ last.msg = MsgUnavailable
            /\ last.raw \in CredentialErrors =>
                    /\ last.exc = "ConnectionError"
                    /\ last.msg = MsgFailedInit \o last.raw
            /\ (last.raw # NoExc /\ last.raw \notin CredentialErrors) =>
                    last.exc = last.raw

\* C5 witness: the reinitialization hit a credential error.
C5_Witness ==
    /\ last.op = "firestore" /\ last.pre.client = NoHandle
    /\ last.outcome = "raise" /\ last.raw \in CredentialErrors

\* C6: at most one live (constructed and not yet closed) client handle exists
\* at any time, after any sequence of calls.
C6_AtMostOneLive == Cardinality(live) <= 1

\* C6 witness: a second client was constructed after the first was closed.
C6_Witness == constructed = 2 /\ live = {2}

\* C7: when cleanup() returns and a handle existed before the call, the handle
\* has been closed and the cached reference is cleared, also when close()
\* reported an error.
C7_CleanupClears ==
    (last.op = "cleanup" /\ last.outcome = "return"
        /\ last.pre.client # NoHandle) =>
        /\ LastObj.client = NoHandle
        /\ last.pre.client \notin live

\* C8: cleanup() never propagates an error: with the handle present or absent,
\* and whether or not close() fails, it returns normally.
C8_CleanupNeverRaises ==
    last.op = "cleanup" => last.outcome = "return" /\ last.exc = NoExc

\* C8 witness: a cleanup() during which close() raised.
C8_Witness ==
    last.op = "cleanup" /\ last.close # NoExc /\ last.swallowed = last.close

\* C9: with the project identifier unset or empty, configuration loading
\* fails with ValueError and yields no configuration object; inside
\* FirebaseManager() the error is raised before any registration or client
\* construction, the handle stays absent and the initialized flag false.
C9_MissingIdentifier ==
    /\ ~Truthy(env.project_id) =>
            /\ from_env(env).exc = "ValueError"
            /\ from_env(env).config = NoConfig
    /\ (last.op = "acquire" /\ ~last.pre.initialized
            /\ ~Truthy(env.project_id)) =>
            /\ last.outcome = "raise" /\ last.exc = "ValueError"
            /\ last.msg = MsgNotSet
            /\ last.loads = 1
            /\ last.inits = 0 /\ last.regs = 0 /\ last.calls = 0
            /\ objs[instance].client = NoHandle
            /\ ~objs[instance].initialized
            /\ live = {}

\* C9 witness: FirebaseManager() with the identifier set to the empty string.
C9_Witness ==
    /\ last.op = "acquire" /\ last.exc = "ValueError"
    /\ env.project_id = ""

\* C10 as stated: a failed FirebaseManager() leaves the singleton
\* unconstructed, and the next call re-runs configuration loading and
\* initialization.
C10_LeavesUnconstructed ==
    /\ (last.op = "acquire" /\ last.outcome = "raise") =>
            instance = NoInstance
    /\ (last.op = "acquire" /\ last.pre.after = "acquire_raise") =>
            last.loads = 1

\* C10 amended: a failed FirebaseManager() propagates and leaves the object
\* cached in _instance with its initialized flag false; the next call reuses
\* that object and re-runs configuration loading and, when that succeeds,
\* initialization, returning only when both succeed.
C10_RetryAfterFailure ==
    /\ (last.op = "acquire" /\ last.outcome = "raise") =>
            /\ ~last.pre.initialized
            /\ instance # NoInstance
            /\ ~objs[instance].initialized
            /\ instance \notin held
    /\ (last.op = "acquire" /\ last.pre.after = "acquire_raise") =>
            /\ last.pre.instance = instance
            /\ last.loads = 1
            /\ last.exc # "ValueError" => last.inits = 1
            /\ last.outcome = "return" =>
                    /\ last.inst = instance
                    /\ objs[instance].initialized
                    /\ objs[instance].config = from_env(env).config

\* C10 witness: the retry after a failed call succeeds.
C10_Witness ==
    /\ last.op = "acquire" /\ last.pre.after = "acquire_raise"
    /\ last.outcome = "return"

\* C12 as stated: initialize fails with ConnectionError when credential
\* resolution fails or when the configured credential file path does not
\* resolve, and re-raises any other error unchanged.
C12_ConnectionErrorOnBadPath ==
    (last.op = "acquire" /\ last.inits = 1) =>
        /\ last.raw \in CredentialErrors => last.exc = "ConnectionError"
        /\ (Truthy(env.credentials_path) /\ ~PathExists(env.credentials_path)) =>
                last.exc = "ConnectionError"
        /\ (last.raw # NoExc /\ last.raw \notin CredentialErrors) =>
                last.exc = last.raw

\* C12 amended: initialize fails with ConnectionError ("Failed to initialize
\* Firebase: ...") when the SDK raises DefaultCredentialsError or
\* FileNotFoundError, and re-raises any other error unchanged; when the SDK
\* raises nothing it returns, also with a configured credential path that is
\* not on disk (the default credentials are used then).
C12_InitErrorTranslation ==
    (last.op \in {"acquire", "firestore"} /\ last.inits = 1) =>
        /\ last.raw \in CredentialErrors =>
                /\ last.outcome = "raise"
                /\ last.exc = "ConnectionError"
                /\ last.msg = MsgFailedInit \o last.raw
        /\ (last.raw # NoExc /\ last.raw \notin CredentialErrors) =>
                /\ last.outcome = "raise"
                /\ last.exc = last.raw
        /\ (last.raw = NoExc /\ last.op = "acquire") =>
                last.outcome = "return"

\* C12 witness: initialize, called from the constructor, hit a credential
\* error.
C12_Witness ==
    /\ last.op = "acquire" /\ last.inits = 1
    /\ last.raw = "DefaultCredentialsError" /\ last.exc = "ConnectionError"

\* C13: when registration is performed, a certificate credential is used if and
\* only if a credential path is configured and exists on disk, the default
\* credentials in every other case (path unset, empty, or not on disk); the
\* database endpoint is passed as an option if and only if it is configured.
C13_RegistrationOptions ==
    registered # NoApp =>
        /\ registered.cred \in {"Certificate", "ApplicationDefault"}
        /\ registered.cred = "Certificate" <=>
                /\ env.credentials_path \notin {None, ""}
                /\ PathExists(env.credentials_path)
        /\ registered.projectId = env.project_id
        /\ registered.databaseURL # None <=> env.database_url \notin {None, ""}
        /\ registered.databaseURL # None =>
                registered.databaseURL = env.database_url

\* C13 witness: registration with a configured credential path that is not on
\* disk and a configured database endpoint.
C13_Witness ==
    /\ last.regs = 1 /\ registered # NoApp
    /\ env.credentials_path = "missing.json"
    /\ registered.cred = "ApplicationDefault"
    /\ registered.databaseURL = "https://db"

\* C14: with the project identifier present and non-empty, configuration
\* loading succeeds and the three fields of the result equal the environment
\* values, an unset optional variable giving None.
C14_ConfigMatchesEnv ==
    /\ Truthy(env.project_id) =>
            /\ from_env(env).exc = NoExc
            /\ from_env(env).config.project_id = env.project_id
            /\ from_env(env).config.credentials_path = env.credentials_path
            /\ from_env(env).config.database_url = env.database_url
    /\ (last.op = "acquire" /\ ~last.pre.initialized
            /\ Truthy(env.project_id)) =>
            /\ last.loads = 1
            /\ last.exc # "ValueError"
            /\ objs[instance].config.project_id = env.project_id
            /\ objs[instance].config.credentials_path = env.credentials_path
            /\ objs[instance].config.database_url = env.database_url

\* C14 witness: identifier "proj-1", no credentials path, no database URL.
C14_Witness ==
    /\ last.op = "acquire" /\ last.loads = 1 /\ last.outcome = "return"
    /\ env = [project_id |-> "proj-1", credentials_path |-> None,
              database_url |-> None]
    /\ objs[instance].config =
            [project_id |-> "proj-1", credentials_path |-> None,
             database_url |-> None]

\* The object the last call worked on: the one in _instance for a constructor
\* call, otherwise the one the caller holds.
TargetObj == IF last.op = "acquire" THEN objs[instance] ELSE LastObj

\* C15: whenever a call of _initialize_firebase fails, from the constructor or
\* from the firestore property, with a credential error or any other error, the
\* handle is absent afterwards.
C15_FailedInitLeavesNoHandle ==
    (last.inits = 1 /\ last.raw # NoExc) =>
        /\ TargetObj.client = NoHandle
        /\ last.pre.client = NoHandle
        /\ last.calls = 0
        /\ live = {}

\* C15 witness: a reinitialization from the firestore property that failed with
\* an unexpected error.
C15_Witness ==
    /\ last.op = "firestore" /\ last.inits = 1
    /\ last.raw = "RuntimeError"

\* C16: over any sequence of calls app registration (initialize_app) succeeds
\* at most once; every later initialize, reinitialization after cleanup()
\* included, skips registration and only constructs and caches the client.
C16_RegistrationAtMostOnce ==
    /\ registrations <= 1
    /\ registrations = 1 <=> registered # NoApp
    /\ last.regs = 1 => ~last.pre.registered
    /\ (last.inits = 1 /\ last.pre.registered) =>
            /\ last.regs = 0
            /\ registered # NoApp
            /\ last.raw = NoExc =>
                    /\ last.calls = 1
                    /\ TargetObj.client \in live \cup {NoHandle}

\* C16 witness: a reinitialization after cleanup() that constructed a second
\* client without registering again.
C16_Witness ==
    /\ last.op = "firestore" /\ last.pre.after = "cleanup"
    /\ last.inits = 1 /\ last.regs = 0 /\ last.calls = 1
    /\ registrations = 1 /\ constructed = 2

\* C17: once the initialized flag is true it never becomes false again:
\* cleanup() does not reset it, so FirebaseManager() after cleanup() returns the
\* existing instance with the handle absent and without configuration load or
\* initialization; the handle is recreated only by the next handle access.
C17_AcquireAfterCleanupHandleAbsent ==
    /\ last.pre.initialized => TargetObj.initialized
    /\ (last.op = "acquire" /\ last.pre.after = "cleanup") =>
            /\ last.outcome = "return"
            /\ last.inst = last.pre.instance
            /\ last.loads = 0 /\ last.inits = 0 /\ last.calls = 0
            /\ objs[instance].client = NoHandle
    /\ (last.pre.initialized /\ last.pre.client = NoHandle
            /\ TargetObj.client # NoHandle) =>
            last.op \in {"firestore", "health_check"}

\* C18: cleanup() is idempotent: with the handle absent it calls no close() and
\* changes no manager state, so a second cleanup() after one that closed the
\* handle closes nothing more and leaves the same state.
C18_CleanupIdempotent ==
    /\ (last.op = "cleanup" /\ last.pre.client = NoHandle) =>
            /\ last.closes = 0
            /\ last.outcome = "return"
            /\ LastObj.client = NoHandle
            /\ LastObj.config = last.pre.config
            /\ LastObj.initialized = last.pre.initialized
    /\ (last.op = "cleanup" /\ last.pre.client # NoHandle) =>
            /\ last.closes = 1
            /\ last.close = NoExc => LastObj.client = NoHandle
    /\ (last.op = "cleanup" /\ last.pre.after = "cleanup"
            /\ last.pre.client = NoHandle) =>
            last.closes = 0 /\ last.swallowed = NoExc

\* C18 witness: the second of two consecutive cleanup() calls, the first of
\* which closed the handle.
C18_Witness ==
    /\ last.op = "cleanup" /\ last.pre.after = "cleanup"
    /\ last.pre.client = NoHandle /\ last.closes = 0
    /\ constructed = 1 /\ live = {}

\* The manager objects that hold a cached client.
Caching == {i \in DOMAIN objs : objs[i].client # NoHandle}

\* C11: when two threads make the first FirebaseManager() call concurrently,
\* once both calls have returned at most one manager object holds a cached
\* client.
C11_OneCachedHandle ==
    (\A t \in Threads : thr[t].pc = "done") => Cardinality(Caching) <= 1

====
